---- MODULE Spec2Model ----
(***************************************************************************)
(* A model of cpi_detee/src/lib.rs: the DeeTEE provider extension.  An     *)
(* action runs one external command and translates its console output     *)
(* into a JSON value.                                                       *)
(*                                                                         *)
(* Text is modelled character by character: a string is a sequence of      *)
(* one-character strings, so len(), contains(), trim(), lines(), split()   *)
(* and replace() are computed the way the Rust standard library computes   *)
(* them.  All modelled text is ASCII, so a byte length is a character      *)
(* count.  The alphabet has no "\r" (lines() would strip it before "\n").   *)
(*                                                                         *)
(* A JSON value is a tagged record, so that values of different JSON types *)
(* can be compared: JNull, JBool, JInt, JF64, JStr, JArr, JObj.            *)
(***************************************************************************)
EXTENDS Integers, Sequences, FiniteSets, TLC

VARIABLES
    pc,        \* "idle": no call in progress; "returned": a call has returned;
               \* "text", then "translated" or "parsed": a function on its own
    action,    \* the name of the last action called
    params,    \* the parameters of that call
    outcome,   \* what the external process did in that call
    output,    \* the raw text handed to the translator in that call
    result,    \* what the call returned
    log        \* the external executions and translations of the call, in order

vars == <<pc, action, params, outcome, output, result, log>>

----------------------------------------------------------------------------
(* Strings: the std::str operations the source uses.  An operator hands    *)
(* what it computes to a helper as an argument rather than naming it in a  *)
(* LET, which keeps TLC's coverage bookkeeping small.                      *)

EMPTY == <<>>

WHITESPACE == {" ", "\n", "\t"}

\* str::len
len(s) == Len(s)

\* s[i..] with a 0-based byte offset
from(s, i) == SubSeq(s, i + 1, Len(s))

\* The least and the greatest element of a non-empty set of integers
Min(S) == CHOOSE i \in S : \A j \in S : i <= j
Max(S) == CHOOSE i \in S : \A j \in S : i >= j

\* pat occurs in s at the 0-based offset i
occurs_at(s, pat, i) ==
    /\ i + Len(pat) <= Len(s)
    /\ \A k \in 1..Len(pat) : s[i + k] = pat[k]

\* Option<usize> as an integer: the least offset, or -1 for None
least_or_none(hits) == IF hits = {} THEN -1 ELSE Min(hits)

\* str::find: the 0-based offset of the first occurrence, or -1 for None
find(s, pat) ==
    least_or_none({i \in 0..(Len(s) - Len(pat)) : occurs_at(s, pat, i)})

\* str::contains
contains(s, pat) == \E i \in 0..(Len(s) - Len(pat)) : occurs_at(s, pat, i)

\* The 1-based positions of the characters that are no whitespace
non_whitespace(s) == {i \in 1..Len(s) : s[i] \notin WHITESPACE}

\* s between the first and the last of the positions `kept`
between(s, kept) == IF kept = {} THEN EMPTY ELSE SubSeq(s, Min(kept), Max(kept))

\* str::trim
trim(s) == between(s, non_whitespace(s))

\* str::split(char): the pieces between the delimiters, at least one piece
RECURSIVE split(_, _)
split_at(s, c, i) ==
    IF i < 0 THEN <<s>>
    ELSE <<SubSeq(s, 1, i)>> \o split(from(s, i + 1), c)

split(s, c) == split_at(s, c, find(s, <<c>>))

\* str::lines: the pieces that "\n" ends, so without a final empty piece
without_final_empty(pieces) ==
    IF pieces[Len(pieces)] = EMPTY THEN SubSeq(pieces, 1, Len(pieces) - 1)
    ELSE pieces

lines(s) == without_final_empty(split(s, "\n"))

\* str::split_whitespace: the non-empty pieces between whitespace runs
word_starts(s) ==
    {i \in 1..Len(s) :
        s[i] \notin WHITESPACE /\ (i = 1 \/ s[i - 1] \in WHITESPACE)}

word_end(s, i) ==
    Min({j \in i..Len(s) : j = Len(s) \/ s[j + 1] \in WHITESPACE})

\* The k-th least element of a set of integers
nth(S, k) == CHOOSE x \in S : Cardinality({y \in S : y < x}) = k - 1

words_from(s, starts) ==
    [k \in 1..Cardinality(starts) |->
        SubSeq(s, nth(starts, k), word_end(s, nth(starts, k)))]

split_whitespace(s) == words_from(s, word_starts(s))

\* str::replace: every non-overlapping occurrence, left to right
RECURSIVE replace(_, _, _)
replace_at(s, pat, to, i) ==
    IF i < 0 THEN s
    ELSE SubSeq(s, 1, i) \o to \o replace(from(s, i + Len(pat)), pat, to)

replace(s, pat, to) == replace_at(s, pat, to, find(s, pat))

\* Iterator::filter and Iterator::map on a sequence
RECURSIVE filter_non_empty(_)
filter_non_empty(ss) ==
    IF ss = <<>> THEN <<>>
    ELSE IF Head(ss) = EMPTY THEN filter_non_empty(Tail(ss))
         ELSE <<Head(ss)>> \o filter_non_empty(Tail(ss))

RECURSIVE filter_contains(_, _)
filter_contains(ss, pat) ==
    IF ss = <<>> THEN <<>>
    ELSE IF contains(Head(ss), pat)
         THEN <<Head(ss)>> \o filter_contains(Tail(ss), pat)
         ELSE filter_contains(Tail(ss), pat)

map_trim(ss) == [i \in 1..Len(ss) |-> trim(ss[i])]

\* Iterator::skip
skip(ss, n) == SubSeq(ss, n + 1, Len(ss))

\* Iterator::find: <<x>> for Some(x), the first element, and <<>> for None
first(ss) == IF ss = <<>> THEN <<>> ELSE <<Head(ss)>>

\* output.lines().find(|l| l.contains(pat))
find_line(s, pat) == first(filter_contains(lines(s), pat))

----------------------------------------------------------------------------
(* Numbers: str::parse::<i64>() and str::parse::<f64>().                   *)

DIGITS == <<"0", "1", "2", "3", "4", "5", "6", "7", "8", "9">>

is_digit(c) == \E d \in 1..10 : DIGITS[d] = c

digit_value(c) == (CHOOSE d \in 1..10 : DIGITS[d] = c) - 1

all_digits(s) == \A i \in 1..Len(s) : is_digit(s[i])

RECURSIVE digits_value(_)
digits_value(s) ==
    IF s = EMPTY THEN 0
    ELSE 10 * digits_value(SubSeq(s, 1, Len(s) - 1)) + digit_value(s[Len(s)])

\* The digits after the optional sign.  TLC's integers are 32-bit, so the
\* model parses digit strings of at most 9 digits (all within i64) and the
\* modelled text has none longer.
parse_digits(body, sign) ==
    IF body = EMPTY \/ ~all_digits(body) \/ Len(body) > 9
    THEN [ok |-> FALSE, v |-> 0]
    ELSE [ok |-> TRUE, v |-> sign * digits_value(body)]

\* i64::from_str: an optional sign, then one or more decimal digits, in range
parse_i64(s) ==
    IF s # EMPTY /\ Head(s) = "-" THEN parse_digits(Tail(s), -1)
    ELSE IF s # EMPTY /\ Head(s) = "+" THEN parse_digits(Tail(s), 1)
    ELSE parse_digits(s, 1)

\* An f64 that is not finite (an infinity or a NaN): e = -1
NOT_FINITE == [ok |-> TRUE, m |-> 0, e |-> -1]

\* The ASCII lower case of the letters of "infinity" and "nan"
ascii_lower(c) ==
    CASE c = "I" -> "i" [] c = "N" -> "n" [] c = "F" -> "f" [] c = "T" -> "t"
      [] c = "Y" -> "y" [] c = "A" -> "a" [] OTHER -> c

to_ascii_lowercase(s) == [i \in 1..Len(s) |-> ascii_lower(s[i])]

\* "inf", "infinity" and "nan", in any case
is_not_finite(folded) ==
    folded \in {<<"i", "n", "f">>,
                <<"i", "n", "f", "i", "n", "i", "t", "y">>,
                <<"n", "a", "n">>}

\* A finite f64 written as a decimal: m / 10^e, with no trailing zero digit
RECURSIVE f64_norm(_, _)
f64_norm(m, e) ==
    IF e > 0 /\ m % 10 = 0 THEN f64_norm(m \div 10, e - 1)
    ELSE [ok |-> TRUE, m |-> m, e |-> e]

\* The integer and the fraction digits of a decimal
parse_decimal(int_part, frac_part, sign) ==
    IF /\ all_digits(int_part) /\ all_digits(frac_part)
       /\ int_part \o frac_part # EMPTY
       /\ Len(int_part \o frac_part) <= 9
    THEN f64_norm(sign * digits_value(int_part \o frac_part), Len(frac_part))
    ELSE [ok |-> FALSE, m |-> 0, e |-> 0]

parse_point(parts, sign) ==
    IF Len(parts) = 1 /\ is_not_finite(to_ascii_lowercase(parts[1])) THEN NOT_FINITE
    ELSE IF Len(parts) = 1 THEN parse_decimal(parts[1], EMPTY, sign)
    ELSE IF Len(parts) = 2 THEN parse_decimal(parts[1], parts[2], sign)
    ELSE [ok |-> FALSE, m |-> 0, e |-> 0]

\* f64::from_str: [sign] digits [ "." [digits] ], [sign] "." digits, and
\* [sign] "inf" | "infinity" | "nan" in any case.  The forms with an
\* exponent do not occur in the modelled text.
parse_f64(s) ==
    IF s # EMPTY /\ Head(s) = "-" THEN parse_point(split(Tail(s), "."), -1)
    ELSE IF s # EMPTY /\ Head(s) = "+" THEN parse_point(split(Tail(s), "."), 1)
    ELSE parse_point(split(s, "."), 1)

----------------------------------------------------------------------------
(* serde_json::Value                                                       *)

JNull == [t |-> "null"]
JBool(b) == [t |-> "bool", b |-> b]
JInt(n) == [t |-> "int", n |-> n]
\* json!(f64): Value::from(f64) is Null for a number that is not finite
JF64(m, e) == IF e < 0 THEN JNull ELSE [t |-> "f64", m |-> m, e |-> e]
JStr(s) == [t |-> "str", s |-> s]
JArr(a) == [t |-> "arr", a |-> a]
JObj(o) == [t |-> "obj", o |-> o]

\* json!({})
EmptyObject == JObj(<<>>)

\* value[key] = v on an object
Set(v, key, x) ==
    JObj([k \in DOMAIN v.o \cup {key} |-> IF k = key THEN x ELSE v.o[k]])

\* value[key] read: Null for a missing key or a value that is no object
Index(v, key) ==
    IF v.t = "obj" /\ key \in DOMAIN v.o THEN v.o[key] ELSE JNull

Keys(v) == IF v.t = "obj" THEN DOMAIN v.o ELSE {}

----------------------------------------------------------------------------
(* The marker literals of the source.                                      *)

\* "detee-cli"
DETEE_CLI ==
    <<"d", "e", "t", "e", "e", "-", "c", "l", "i">>

\* "detee-cli "
DETEE_CLI_PREFIX ==
    <<"d", "e", "t", "e", "e", "-", "c", "l", "i", " ">>

\* "Config path:"
CONFIG_PATH ==
    <<"C", "o", "n", "f", "i", "g", " ", "p", "a", "t", "h", ":">>

\* "brain URL"
BRAIN_URL ==
    <<"b", "r", "a", "i", "n", " ", "U", "R", "L">>

\* "brain URL is:"
BRAIN_URL_IS ==
    <<"b", "r", "a", "i", "n", " ", "U", "R", "L", " ", "i", "s", ":">>

\* "SSH Key Path:"
SSH_KEY_PATH ==
    <<"S", "S", "H", " ", "K", "e", "y", " ", "P", "a", "t", "h", ":">>

\* "Wallet public key:"
WALLET_PUBLIC_KEY ==
    <<"W", "a", "l", "l", "e", "t", " ", "p", "u", "b", "l", "i", "c", " ",
      "k", "e", "y", ":">>

\* "Account Balance:"
ACCOUNT_BALANCE ==
    <<"A", "c", "c", "o", "u", "n", "t", " ", "B", "a", "l", "a", "n", "c",
      "e", ":">>

\* "Wallet secret key path:"
WALLET_SECRET_KEY_PATH ==
    <<"W", "a", "l", "l", "e", "t", " ", "s", "e", "c", "r", "e", "t", " ",
      "k", "e", "y", " ", "p", "a", "t", "h", ":">>

\* "VM CREATED"
VM_CREATED ==
    <<"V", "M", " ", "C", "R", "E", "A", "T", "E", "D">>

\* "VM CREATED!"
UUID_PATTERN ==
    <<"V", "M", " ", "C", "R", "E", "A", "T", "E", "D", "!">>

\* "Using random VM name:"
USING_RANDOM_VM_NAME ==
    <<"U", "s", "i", "n", "g", " ", "r", "a", "n", "d", "o", "m", " ", "V",
      "M", " ", "n", "a", "m", "e", ":">>

\* "Node price:"
NODE_PRICE ==
    <<"N", "o", "d", "e", " ", "p", "r", "i", "c", "e", ":">>

\* "Total Units for hardware requested:"
TOTAL_UNITS ==
    <<"T", "o", "t", "a", "l", " ", "U", "n", "i", "t", "s", " ", "f", "o",
      "r", " ", "h", "a", "r", "d", "w", "a", "r", "e", " ", "r", "e", "q",
      "u", "e", "s", "t", "e", "d", ":">>

\* "Locking"
LOCKING ==
    <<"L", "o", "c", "k", "i", "n", "g">>

\* "ssh -p"
SSH_P ==
    <<"s", "s", "h", " ", "-", "p">>

\* "| City"
PIPE_CITY ==
    <<"|", " ", "C", "i", "t", "y">>

\* "| UUID"
PIPE_UUID ==
    <<"|", " ", "U", "U", "I", "D">>

\* "hardware modifications"
HARDWARE_MODIFICATIONS ==
    <<"h", "a", "r", "d", "w", "a", "r", "e", " ", "m", "o", "d", "i", "f",
      "i", "c", "a", "t", "i", "o", "n", "s">>

\* "will run for another"
WILL_RUN_FOR_ANOTHER ==
    <<"w", "i", "l", "l", " ", "r", "u", "n", " ", "f", "o", "r", " ", "a",
      "n", "o", "t", "h", "e", "r">>

\* "The node accepted the hardware modifications for the VM"
NODE_ACCEPTED ==
    <<"T", "h", "e", " ", "n", "o", "d", "e", " ", "a", "c", "c", "e", "p",
      "t", "e", "d", " ", "t", "h", "e", " ", "h", "a", "r", "d", "w", "a",
      "r", "e", " ", "m", "o", "d", "i", "f", "i", "c", "a", "t", "i", "o",
      "n", "s", " ", "f", "o", "r", " ", "t", "h", "e", " ", "V", "M">>

\* "The VM will run for another"
THE_VM_WILL_RUN ==
    <<"T", "h", "e", " ", "V", "M", " ", "w", "i", "l", "l", " ", "r", "u",
      "n", " ", "f", "o", "r", " ", "a", "n", "o", "t", "h", "e", "r">>

\* "----"
DASHES ==
    <<"-", "-", "-", "-">>

\* "|"
PIPE ==
    <<"|">>

----------------------------------------------------------------------------
(* parse_workers_table (lib.rs 146-188)                                    *)

\* Result::unwrap_or on a parsed integer
unwrap_or(parsed, default) == IF parsed.ok THEN parsed.v ELSE default

\* Result::unwrap_or(0.0) on a parsed f64
unwrap_or_zero(parsed) ==
    IF parsed.ok THEN [m |-> parsed.m, e |-> parsed.e] ELSE [m |-> 0, e |-> 0]

\* line.split('|').map(|s| s.trim()).filter(|s| !s.is_empty())
columns_of(line) == filter_non_empty(map_trim(split(line, "|")))

\* WorkerInfo { .. } built from columns[0..=7]
WorkerInfo(columns) ==
    [city |-> columns[1],
     uuid |-> columns[2],
     hostname |-> columns[3],
     cores |-> unwrap_or(parse_i64(columns[4]), 0),
     memory_mb |-> unwrap_or(parse_i64(columns[5]), 0),
     disk_gb |-> unwrap_or(parse_i64(columns[6]), 0),
     lp_per_hour |-> unwrap_or_zero(parse_f64(columns[7])),
     time_left |-> columns[8]]

\* One turn of the for loop, on `line` with its `columns`: `acc` holds the
\* workers pushed so far.  columns[7] on a row of exactly 7 columns indexes
\* out of bounds: the call panics and the loop runs no further.
table_row(acc, line, columns) ==
    IF acc.kind = "Panic" THEN acc
    ELSE IF contains(line, DASHES) THEN acc
    ELSE IF Len(columns) < 7 THEN acc
    ELSE IF Len(columns) < 8 THEN [kind |-> "Panic", workers |-> acc.workers]
    ELSE [kind |-> "Ok", workers |-> Append(acc.workers, WorkerInfo(columns))]

\* The for loop over the table lines
RECURSIVE parse_rows(_, _)
parse_rows(acc, ls) ==
    IF ls = <<>> THEN acc
    ELSE parse_rows(table_row(acc, Head(ls), columns_of(Head(ls))), Tail(ls))

\* Vec<WorkerInfo>, or a panic
parse_workers_table(text) ==
    parse_rows([kind |-> "Ok", workers |-> <<>>],
               skip(filter_contains(lines(text), PIPE), 2))

\* serde's Serialize for WorkerInfo and for Vec<WorkerInfo>
worker_to_json(w) ==
    JObj([city |-> JStr(w.city),
          uuid |-> JStr(w.uuid),
          hostname |-> JStr(w.hostname),
          cores |-> JInt(w.cores),
          memory_mb |-> JInt(w.memory_mb),
          disk_gb |-> JInt(w.disk_gb),
          lp_per_hour |-> JF64(w.lp_per_hour.m, w.lp_per_hour.e),
          time_left |-> JStr(w.time_left)])

workers_to_json(ws) == JArr([i \in 1..Len(ws) |-> worker_to_json(ws[i])])

----------------------------------------------------------------------------
(* cli_output_to_json (lib.rs 210-402)                                     *)

\* A faulty segment: the last of the parts, not the second
last_of(parts) ==
    IF Len(parts) >= 2 THEN <<trim(parts[Len(parts)])>> ELSE <<>>

\* parts[1].trim() when parts.len() >= 2: <<value>>, or <<>>
second_of(parts) == IF Len(parts) >= 2 THEN <<trim(parts[2])>> ELSE <<>>

\* line.split(':') of the line found, if one was found
colon_segment(found) ==
    IF found = <<>> THEN <<>> ELSE second_of(split(found[1], ":"))

\* "find the line containing marker, split on ':', take parts[1], trim"
second_segment(text, marker) == colon_segment(find_line(text, marker))

\* value[key] = json!(s) when the extraction found s
set_str_if(v, key, found) ==
    IF found = <<>> THEN v ELSE Set(v, key, JStr(found[1]))

\* value[key] = json!(n) when the parse succeeded
set_int_if(v, key, parsed) ==
    IF parsed.ok THEN Set(v, key, JInt(parsed.v)) ELSE v

\* value[key] = json!(x) when the parse succeeded
set_f64_if(v, key, parsed) ==
    IF parsed.ok THEN Set(v, key, JF64(parsed.m, parsed.e)) ELSE v

\* A faulty character class: [0-9a-fA-F]
is_hex_any_case(c) ==
    c \in {"0", "1", "2", "3", "4", "5", "6", "7", "8", "9",
           "a", "b", "c", "d", "e", "f", "A", "B", "C", "D", "E", "F"}

\* [0-9a-f]
is_hex(c) == c \in {"0", "1", "2", "3", "4", "5", "6", "7", "8", "9",
                    "a", "b", "c", "d", "e", "f"}

\* The 1-based offsets of the dashes in an 8-4-4-4-12 literal, and its length
UUID_DASHES == {9, 14, 19, 24}
UUID_LEN == 36

\* The regex matches at 0-based offset i of s
uuid_at(s, i) ==
    /\ i + UUID_LEN <= Len(s)
    /\ \A k \in 1..UUID_LEN :
          IF k \in UUID_DASHES THEN s[i + k] = "-" ELSE is_hex(s[i + k])

\* The capture at the 0-based offset i, -1 for no match
capture_at(rest, i) ==
    IF i < 0 THEN <<>> ELSE <<SubSeq(rest, i + 1, i + UUID_LEN)>>

\* uuid_re.captures(rest): the leftmost match, <<uuid>> or <<>>
uuid_captures(rest) ==
    capture_at(rest,
               least_or_none({i \in 0..(Len(rest) - UUID_LEN) : uuid_at(rest, i)}))

\* line.find(uuid_pattern) and the regex on the rest of the line
uuid_after(line, idx) ==
    IF idx < 0 THEN <<>> ELSE uuid_captures(from(line, idx + Len(UUID_PATTERN)))

uuid_of_line(found) ==
    IF found = <<>> THEN <<>> ELSE uuid_after(found[1], find(found[1], UUID_PATTERN))

\* Extract UUID (352-363)
extract_uuid(text) == uuid_of_line(find_line(text, VM_CREATED))

\* Check for version information (214-225)
version_info(text) ==
    JObj([version |-> JStr(trim(replace(trim(text), DETEE_CLI_PREFIX, EMPTY))),
          success |-> JBool(TRUE)])

\* A faulty container ID: the text as it is, untrimmed
container_id_untrimmed(text) == JObj([container_id |-> JStr(text)])

\* Check for container ID (227-233)
container_id(text) == JObj([container_id |-> JStr(trim(text))])

\* Check for account information (235-294)
account_info(text) ==
    set_str_if(
    set_str_if(
    set_str_if(
    set_str_if(
    set_str_if(
    set_str_if(EmptyObject,
        "config_path", second_segment(text, CONFIG_PATH)),
        "brain_url", second_segment(text, BRAIN_URL_IS)),
        "ssh_key_path", second_segment(text, SSH_KEY_PATH)),
        "wallet_public_key", second_segment(text, WALLET_PUBLIC_KEY)),
        "account_balance", second_segment(text, ACCOUNT_BALANCE)),
        "wallet_secret_key_path", second_segment(text, WALLET_SECRET_KEY_PATH))

\* Extract price (308-315): parts[1].split('/')[0].trim()
price_of(parts) ==
    IF Len(parts) >= 2 THEN <<trim(split(parts[2], "/")[1])>> ELSE <<>>

price_segment(found) ==
    IF found = <<>> THEN <<>> ELSE price_of(split(found[1], ":"))

extract_price(text) == price_segment(find_line(text, NODE_PRICE))

\* Extract total units (317-325)
units_of(found) ==
    IF found = <<>> THEN [ok |-> FALSE, v |-> 0] ELSE parse_i64(found[1])

set_total_units(v, text) ==
    set_int_if(v, "total_units", units_of(second_segment(text, TOTAL_UNITS)))

\* Extract locked LP (327-335)
locked_of(parts) ==
    IF Len(parts) >= 2 THEN parse_f64(parts[2]) ELSE [ok |-> FALSE, m |-> 0, e |-> 0]

locked_words(found) ==
    IF found = <<>> THEN <<>> ELSE split_whitespace(found[1])

set_locked_lp(v, text) ==
    set_f64_if(v, "locked_lp", locked_of(locked_words(find_line(text, LOCKING))))

\* Extract SSH info (337-350)
\* A faulty host: the whole target when it has no '@'
host_or_target(at) == IF Len(at) >= 2 THEN at[2] ELSE at[1]

host_of(at) == IF Len(at) >= 2 THEN at[2] ELSE EMPTY

ssh_of(v, parts) ==
    IF Len(parts) >= 4
    THEN Set(set_int_if(v, "ssh_port", parse_i64(parts[3])),
             "ssh_host", JStr(host_of(split(parts[4], "@"))))
    ELSE v

ssh_words(found) ==
    IF found = <<>> THEN <<>> ELSE split_whitespace(found[1])

set_ssh_info(v, text) == ssh_of(v, ssh_words(find_line(text, SSH_P)))

\* Check for VM creation output (296-366)
vm_info(text) ==
    set_str_if(
    set_ssh_info(
    set_locked_lp(
    set_total_units(
    set_str_if(
    set_str_if(EmptyObject,
        "hostname", second_segment(text, USING_RANDOM_VM_NAME)),
        "price", extract_price(text)),
        text),
        text),
        text),
        "uuid", extract_uuid(text))

\* Extract hours updated (385-393): parts[6] of the line
hours_of(parts) ==
    IF Len(parts) >= 7 THEN parse_i64(parts[7]) ELSE [ok |-> FALSE, v |-> 0]

hours_words(found) ==
    IF found = <<>> THEN <<>> ELSE split_whitespace(found[1])

\* Extract hardware modification status (380-383)
hardware_modified(v, text) ==
    IF contains(text, NODE_ACCEPTED) THEN Set(v, "hardware_modified", JBool(TRUE))
    ELSE v

\* Check for VM update output (374-396)
update_info(text) ==
    set_int_if(hardware_modified(JObj([success |-> JBool(TRUE)]), text),
               "hours_updated",
               hours_of(hours_words(find_line(text, THE_VM_WILL_RUN))))

\* The predicates of the if chain, in the order of the source
is_version(text) == contains(text, DETEE_CLI)
is_container_id(text) == len(text) = 64 \/ len(text) = 12
is_account(text) == contains(text, CONFIG_PATH) /\ contains(text, BRAIN_URL)
is_vm_created(text) == contains(text, VM_CREATED)
is_vm_table(text) == contains(text, PIPE_CITY) /\ contains(text, PIPE_UUID)
is_vm_update(text) ==
    contains(text, HARDWARE_MODIFICATIONS) \/ contains(text, WILL_RUN_FOR_ANOTHER)

\* A returned Value with the branch of the if chain that produced it
Returned(shape, value) == [kind |-> "Ok", shape |-> shape, value |-> value]

\* json!(workers), or the parser's panic
table_json(parsed) ==
    IF parsed.kind = "Panic"
    THEN [kind |-> "Panic", shape |-> "VmTable", value |-> JNull]
    ELSE Returned("VmTable", workers_to_json(parsed.workers))

\* Check for VM list output (368-372)
vm_table(text) == table_json(parse_workers_table(text))

\* Result<Value, String>: never an Err; `shape` records the branch taken
cli_output_to_json(text) ==
    IF is_version(text) THEN Returned("VersionInfo", version_info(text))
    ELSE IF is_container_id(text) THEN Returned("ContainerId", container_id(text))
    ELSE IF is_account(text) THEN Returned("AccountInfo", account_info(text))
    ELSE IF is_vm_created(text) THEN Returned("VmCreated", vm_info(text))
    ELSE IF is_vm_table(text) THEN vm_table(text)
    ELSE IF is_vm_update(text) THEN Returned("VmUpdate", update_info(text))
    ELSE Returned("Generic", JObj([success |-> JBool(TRUE)]))

----------------------------------------------------------------------------
(* The command collaborator and the actions (lib.rs 104-143, 406-544).     *)

\* std::process::Output as the code reads it: `spawned` is FALSE when
\* Command::output() itself fails, `success` is output.status.success()
ProcessOutput(spawned, success, stdout) ==
    [spawned |-> spawned, success |-> success, stdout |-> stdout]

\* Result<String, String>
CmdOk(stdout) == [ok |-> TRUE, stdout |-> stdout, err |-> "none"]
CmdErr(err) == [ok |-> FALSE, stdout |-> EMPTY, err |-> err]

run_detee_cmd(o) ==
    IF ~o.spawned THEN CmdErr("Failed to execute DeeTEE command")
    ELSE IF o.success THEN CmdOk(o.stdout)
    ELSE CmdErr("DeeTEE command failed")

run_shell_cmd(o) ==
    IF ~o.spawned THEN CmdErr("Failed to execute shell command")
    ELSE IF o.success THEN CmdOk(o.stdout)
    ELSE CmdErr("Shell command failed")

\* ActionResult = Result<Value, String>, or the call panicked
Ok(value) == [kind |-> "Ok", value |-> value, err |-> "none"]
Err(err) == [kind |-> "Err", value |-> JNull, err |-> err]
Panicked == [kind |-> "Panic", value |-> JNull, err |-> "none"]

\* What one call did: its result, the text it translated (EMPTY when it
\* translated nothing) and its external executions and translations in order
Call(res, text, events) == [result |-> res, output |-> text, log |-> events]

\* A faulty `?` on a failed command: the command is run a second time
failed_after_retry(cmd) == Call(Err(cmd.err), EMPTY, <<"exec", "exec">>)

\* `?` on a failed command: the error is returned, nothing is translated
Failed(cmd) == Call(Err(cmd.err), EMPTY, <<"exec">>)

\* Ok(result) of the four actions that return the translation as it is
as_it_is(json) == IF json.kind = "Panic" THEN Panicked ELSE Ok(json.value)

\* `let output = run(..)?; let result = self.cli_output_to_json(&output, ..)?;`
translated(cmd, res) ==
    IF ~cmd.ok THEN Failed(cmd)
    ELSE Call(res, cmd.stdout, <<"exec", "translate">>)

\* A faulty `let _ = run(..)`: the error of the command is dropped
succeeded_regardless(cmd) ==
    Call(Ok(JObj([success |-> JBool(TRUE)])), EMPTY, <<"exec">>)

\* `let _ = run(..)?; Ok(json!({"success": true}))`
succeeded(cmd) ==
    IF ~cmd.ok THEN Failed(cmd)
    ELSE Call(Ok(JObj([success |-> JBool(TRUE)])), EMPTY, <<"exec">>)

test_install_of(cmd) == translated(cmd, as_it_is(cli_output_to_json(cmd.stdout)))

test_install(o) == test_install_of(run_detee_cmd(o))

\* json!({"success": true, "container_id": result["container_id"]})
container_json(json) ==
    IF json.kind = "Panic" THEN Panicked
    ELSE Ok(JObj([success |-> JBool(TRUE),
                  container_id |-> Index(json.value, "container_id")]))

setup_container_of(cmd) ==
    translated(cmd, container_json(cli_output_to_json(cmd.stdout)))

setup_container(o) == setup_container_of(run_shell_cmd(o))

setup_account(o) == succeeded(run_detee_cmd(o))

get_account_info_of(cmd) ==
    translated(cmd, as_it_is(cli_output_to_json(cmd.stdout)))

get_account_info(o) == get_account_info_of(run_detee_cmd(o))

create_worker_of(cmd) == translated(cmd, as_it_is(cli_output_to_json(cmd.stdout)))

create_worker(o) == create_worker_of(run_detee_cmd(o))

\* json!({"workers": workers})
workers_json(json) ==
    IF json.kind = "Panic" THEN Panicked ELSE Ok(JObj([workers |-> json.value]))

list_workers_of(cmd) == translated(cmd, workers_json(cli_output_to_json(cmd.stdout)))

list_workers(o) == list_workers_of(run_detee_cmd(o))

\* json!({"city": .., "hostname": .., ..}) of get_worker: no uuid
vm_json(worker) ==
    JObj([city |-> JStr(worker.city),
          hostname |-> JStr(worker.hostname),
          cores |-> JInt(worker.cores),
          memory_mb |-> JInt(worker.memory_mb),
          disk_gb |-> JInt(worker.disk_gb),
          lp_per_hour |-> JF64(worker.lp_per_hour.m, worker.lp_per_hour.e),
          time_left |-> JStr(worker.time_left)])

\* workers.first(): {"vm": vm_info}, or the parse error
first_worker(parsed) ==
    IF parsed.kind = "Panic" THEN Panicked
    ELSE IF parsed.workers # <<>> THEN Ok(JObj([vm |-> vm_json(parsed.workers[1])]))
    ELSE Err("Failed to parse worker info for ID")

get_worker_of(worker_id, cmd) ==
    IF ~cmd.ok THEN Failed(cmd)
    ELSE IF trim(cmd.stdout) = EMPTY
    THEN Call(Err("Worker with ID not found"), EMPTY, <<"exec">>)
    ELSE translated(cmd, first_worker(parse_workers_table(cmd.stdout)))

get_worker(worker_id, o) == get_worker_of(worker_id, run_detee_cmd(o))

\* json!({"success": true, "exists": exists})
exists_json(exists) ==
    Call(Ok(JObj([success |-> JBool(TRUE), exists |-> JBool(exists)])),
         EMPTY, <<"exec">>)

\* A faulty has_worker: the `?` of the other actions on its command
has_worker_propagating(worker_id, cmd) ==
    IF cmd.ok THEN exists_json(trim(cmd.stdout) # EMPTY) ELSE Failed(cmd)

has_worker_of(worker_id, cmd) ==
    IF cmd.ok THEN exists_json(trim(cmd.stdout) # EMPTY)
    ELSE exists_json(FALSE)

has_worker(worker_id, o) == has_worker_of(worker_id, run_detee_cmd(o))

update_worker_of(worker_id, cmd) ==
    translated(cmd, as_it_is(cli_output_to_json(cmd.stdout)))

update_worker(worker_id, o) == update_worker_of(worker_id, run_detee_cmd(o))

delete_worker(worker_id, o) == succeeded(run_detee_cmd(o))

\* The `?` on validation::extract_string / extract_string_opt /
\* extract_int_opt in execute_action (651-678): no command has been run
invalid_params == Call(Err("Invalid parameter"), EMPTY, <<>>)

\* The `_` arm of execute_action (680)
action_not_found == Call(Err("Action not found"), EMPTY, <<>>)

----------------------------------------------------------------------------
(* Sample console text.  A text is the concatenation of a bounded number   *)
(* of fragments; a fragment brings its own line end, or none.              *)

\* "detee-cli v1.4.2"
F_VERSION ==
    <<"d", "e", "t", "e", "e", "-", "c", "l", "i", " ", "v", "1", ".", "4",
      ".", "2">>

\* "detee-cli 1\n" (12 characters)
F_VERSION12 ==
    <<"d", "e", "t", "e", "e", "-", "c", "l", "i", " ", "1", "\n">>

\* "ok\n"
F_OK ==
    <<"o", "k", "\n">>

\* "\n"
F_NL ==
    <<"\n">>

\* "0123456789abcdef0123456789abcdef0123456789abcdef0123456789abcdef" (64 characters)
F_ID64 ==
    <<"0", "1", "2", "3", "4", "5", "6", "7", "8", "9", "a", "b", "c", "d",
      "e", "f", "0", "1", "2", "3", "4", "5", "6", "7", "8", "9", "a", "b",
      "c", "d", "e", "f", "0", "1", "2", "3", "4", "5", "6", "7", "8", "9",
      "a", "b", "c", "d", "e", "f", "0", "1", "2", "3", "4", "5", "6", "7",
      "8", "9", "a", "b", "c", "d", "e", "f">>

\* "0123456789ab" (12 characters)
F_ID12 ==
    <<"0", "1", "2", "3", "4", "5", "6", "7", "8", "9", "a", "b">>

\* "VM CREATED! " (12 characters)
F_CREATED ==
    <<"V", "M", " ", "C", "R", "E", "A", "T", "E", "D", "!", " ">>

\* "VM CREATED "
F_CREATED_NO_BANG ==
    <<"V", "M", " ", "C", "R", "E", "A", "T", "E", "D", " ">>

\* "Config path: /c\n"
F_CONFIG ==
    <<"C", "o", "n", "f", "i", "g", " ", "p", "a", "t", "h", ":", " ", "/",
      "c", "\n">>

\* "The brain URL is: http://b\n"
F_BRAIN ==
    <<"T", "h", "e", " ", "b", "r", "a", "i", "n", " ", "U", "R", "L", " ",
      "i", "s", ":", " ", "h", "t", "t", "p", ":", "/", "/", "b", "\n">>

\* "| City | UUID |\n|----|\n" (the two header lines)
F_HEADER ==
    <<"|", " ", "C", "i", "t", "y", " ", "|", " ", "U", "U", "I", "D", " ",
      "|", "\n", "|", "-", "-", "-", "-", "|", "\n">>

\* "hardware modifications\n"
F_HARDWARE ==
    <<"h", "a", "r", "d", "w", "a", "r", "e", " ", "m", "o", "d", "i", "f",
      "i", "c", "a", "t", "i", "o", "n", "s", "\n">>

\* "will run for another"
F_RUN ==
    <<"w", "i", "l", "l", " ", "r", "u", "n", " ", "f", "o", "r", " ", "a",
      "n", "o", "t", "h", "e", "r">>

\* "a1b2c3d4-e5f6-47a8-99b0-1234567890ab "
F_UUID_A ==
    <<"a", "1", "b", "2", "c", "3", "d", "4", "-", "e", "5", "f", "6", "-",
      "4", "7", "a", "8", "-", "9", "9", "b", "0", "-", "1", "2", "3", "4",
      "5", "6", "7", "8", "9", "0", "a", "b", " ">>

\* "00000000-1111-2222-3333-444444444444 "
F_UUID_B ==
    <<"0", "0", "0", "0", "0", "0", "0", "0", "-", "1", "1", "1", "1", "-",
      "2", "2", "2", "2", "-", "3", "3", "3", "3", "-", "4", "4", "4", "4",
      "4", "4", "4", "4", "4", "4", "4", "4", " ">>

\* "A1B2C3D4-E5F6-47A8-99B0-1234567890AB "
F_UUID_UPPER ==
    <<"A", "1", "B", "2", "C", "3", "D", "4", "-", "E", "5", "F", "6", "-",
      "4", "7", "A", "8", "-", "9", "9", "B", "0", "-", "1", "2", "3", "4",
      "5", "6", "7", "8", "9", "0", "A", "B", " ">>

\* "f"
F_HEX ==
    <<"f">>

\* "| City | UUID |\n" (one header line)
R_HEADER1 ==
    <<"|", " ", "C", "i", "t", "y", " ", "|", " ", "U", "U", "I", "D", " ",
      "|", "\n">>

\* "| Rome | a1 | vm1 | 2 | 8 | 20 | 0.5 | 3h |\n" (8 columns)
R_ROME ==
    <<"|", " ", "R", "o", "m", "e", " ", "|", " ", "a", "1", " ", "|", " ",
      "v", "m", "1", " ", "|", " ", "2", " ", "|", " ", "8", " ", "|", " ",
      "2", "0", " ", "|", " ", "0", ".", "5", " ", "|", " ", "3", "h", " ",
      "|", "\n">>

\* "| Oslo | b2 | vm2 | 4 | 16 | 40 | 1.25 | 9h |\n" (8 columns)
R_OSLO ==
    <<"|", " ", "O", "s", "l", "o", " ", "|", " ", "b", "2", " ", "|", " ",
      "v", "m", "2", " ", "|", " ", "4", " ", "|", " ", "1", "6", " ", "|",
      " ", "4", "0", " ", "|", " ", "1", ".", "2", "5", " ", "|", " ", "9",
      "h", " ", "|", "\n">>

\* "| Oslo | b2 | vm2 | x | 16 | 40 | 1.25 | 9h |\n" (cores is no integer)
R_BAD_CORES ==
    <<"|", " ", "O", "s", "l", "o", " ", "|", " ", "b", "2", " ", "|", " ",
      "v", "m", "2", " ", "|", " ", "x", " ", "|", " ", "1", "6", " ", "|",
      " ", "4", "0", " ", "|", " ", "1", ".", "2", "5", " ", "|", " ", "9",
      "h", " ", "|", "\n">>

\* "| Rome | a1 | vm1 | 2 | 8G | - | n/a | 3h |\n" (memory, disk and price do not parse)
R_BAD_NUMBERS ==
    <<"|", " ", "R", "o", "m", "e", " ", "|", " ", "a", "1", " ", "|", " ",
      "v", "m", "1", " ", "|", " ", "2", " ", "|", " ", "8", "G", " ", "|",
      " ", "-", " ", "|", " ", "n", "/", "a", " ", "|", " ", "3", "h", " ",
      "|", "\n">>

\* "| Rome | a1 | vm1 | 2 | 8 | 20 | 0.5 |\n" (7 columns)
R_SEVEN ==
    <<"|", " ", "R", "o", "m", "e", " ", "|", " ", "a", "1", " ", "|", " ",
      "v", "m", "1", " ", "|", " ", "2", " ", "|", " ", "8", " ", "|", " ",
      "2", "0", " ", "|", " ", "0", ".", "5", " ", "|", "\n">>

\* "| Rome | a1 | vm1 | x | 8 | 20 | 0.5 |\n" (7 columns, cores is no integer)
R_SEVEN_BAD ==
    <<"|", " ", "R", "o", "m", "e", " ", "|", " ", "a", "1", " ", "|", " ",
      "v", "m", "1", " ", "|", " ", "x", " ", "|", " ", "8", " ", "|", " ",
      "2", "0", " ", "|", " ", "0", ".", "5", " ", "|", "\n">>

\* "| Rome | a1 | vm1 | 2 | 8 |\n" (5 columns)
R_FIVE ==
    <<"|", " ", "R", "o", "m", "e", " ", "|", " ", "a", "1", " ", "|", " ",
      "v", "m", "1", " ", "|", " ", "2", " ", "|", " ", "8", " ", "|", "\n">>

\* "|----|----|\n"
R_SEPARATOR ==
    <<"|", "-", "-", "-", "-", "|", "-", "-", "-", "-", "|", "\n">>

\* "| Rome | a1 | v----1 | 2 | 8 | 20 | 0.5 | 3h |\n" (8 columns and a dash run)
R_DASHED ==
    <<"|", " ", "R", "o", "m", "e", " ", "|", " ", "a", "1", " ", "|", " ",
      "v", "-", "-", "-", "-", "1", " ", "|", " ", "2", " ", "|", " ", "8",
      " ", "|", " ", "2", "0", " ", "|", " ", "0", ".", "5", " ", "|", " ",
      "3", "h", " ", "|", "\n">>

\* "2 VMs\n"
R_NO_PIPE ==
    <<"2", " ", "V", "M", "s", "\n">>

\* "a1"
ID_A1 ==
    <<"a", "1">>

\* "b2"
ID_B2 ==
    <<"b", "2">>

\* Lines of the output of `detee-cli vm deploy`
\* "VM CREATED! uuid a1b2c3d4-e5f6-47a8-99b0-1234567890ab\n"
V_CREATED ==
    <<"V", "M", " ", "C", "R", "E", "A", "T", "E", "D", "!", " ", "u", "u",
      "i", "d", " ", "a", "1", "b", "2", "c", "3", "d", "4", "-", "e", "5",
      "f", "6", "-", "4", "7", "a", "8", "-", "9", "9", "b", "0", "-", "1",
      "2", "3", "4", "5", "6", "7", "8", "9", "0", "a", "b", "\n">>

\* "VM CREATED\n"
V_CREATED_PLAIN ==
    <<"V", "M", " ", "C", "R", "E", "A", "T", "E", "D", "\n">>

\* "Using random VM name: calm-fox\n"
V_NAME ==
    <<"U", "s", "i", "n", "g", " ", "r", "a", "n", "d", "o", "m", " ", "V",
      "M", " ", "n", "a", "m", "e", ":", " ", "c", "a", "l", "m", "-", "f",
      "o", "x", "\n">>

\* "Using random VM name:\n" (no name)
V_NAME_EMPTY ==
    <<"U", "s", "i", "n", "g", " ", "r", "a", "n", "d", "o", "m", " ", "V",
      "M", " ", "n", "a", "m", "e", ":", "\n">>

\* "Node price: 0.02 LP/unit/min\n"
V_PRICE ==
    <<"N", "o", "d", "e", " ", "p", "r", "i", "c", "e", ":", " ", "0", ".",
      "0", "2", " ", "L", "P", "/", "u", "n", "i", "t", "/", "m", "i", "n",
      "\n">>

\* "Total Units for hardware requested: 12\n"
V_UNITS ==
    <<"T", "o", "t", "a", "l", " ", "U", "n", "i", "t", "s", " ", "f", "o",
      "r", " ", "h", "a", "r", "d", "w", "a", "r", "e", " ", "r", "e", "q",
      "u", "e", "s", "t", "e", "d", ":", " ", "1", "2", "\n">>

\* "Total Units for hardware requested: many\n" (no integer)
V_UNITS_BAD ==
    <<"T", "o", "t", "a", "l", " ", "U", "n", "i", "t", "s", " ", "f", "o",
      "r", " ", "h", "a", "r", "d", "w", "a", "r", "e", " ", "r", "e", "q",
      "u", "e", "s", "t", "e", "d", ":", " ", "m", "a", "n", "y", "\n">>

\* "Locking 3.50 LP\n"
V_LOCKING ==
    <<"L", "o", "c", "k", "i", "n", "g", " ", "3", ".", "5", "0", " ", "L",
      "P", "\n">>

\* "Locking some LP\n" (no number)
V_LOCKING_BAD ==
    <<"L", "o", "c", "k", "i", "n", "g", " ", "s", "o", "m", "e", " ", "L",
      "P", "\n">>

\* "Locking NaN LP\n" (a number that is not finite)
V_LOCKING_NAN ==
    <<"L", "o", "c", "k", "i", "n", "g", " ", "N", "a", "N", " ", "L", "P",
      "\n">>

\* "Locking\n" (one token)
V_LOCKING_ALONE ==
    <<"L", "o", "c", "k", "i", "n", "g", "\n">>

\* "ssh -p 2222 root@10.0.0.7\n"
V_SSH ==
    <<"s", "s", "h", " ", "-", "p", " ", "2", "2", "2", "2", " ", "r", "o",
      "o", "t", "@", "1", "0", ".", "0", ".", "0", ".", "7", "\n">>

\* "ssh -p port root@10.0.0.7\n" (no integer port)
V_SSH_BAD_PORT ==
    <<"s", "s", "h", " ", "-", "p", " ", "p", "o", "r", "t", " ", "r", "o",
      "o", "t", "@", "1", "0", ".", "0", ".", "0", ".", "7", "\n">>

\* "ssh -p 2222 10.0.0.7\n" (a target without '@')
V_SSH_NO_AT ==
    <<"s", "s", "h", " ", "-", "p", " ", "2", "2", "2", "2", " ", "1", "0",
      ".", "0", ".", "0", ".", "7", "\n">>

\* "ssh -p 2222\n" (three tokens)
V_SSH_SHORT ==
    <<"s", "s", "h", " ", "-", "p", " ", "2", "2", "2", "2", "\n">>

\* Lines of the output of `detee-cli account`
\* "Config path: /root/.detee\n"
A_CONFIG ==
    <<"C", "o", "n", "f", "i", "g", " ", "p", "a", "t", "h", ":", " ", "/",
      "r", "o", "o", "t", "/", ".", "d", "e", "t", "e", "e", "\n">>

\* "Config path:  /etc/detee : old\n" (a third segment)
A_CONFIG_OTHER ==
    <<"C", "o", "n", "f", "i", "g", " ", "p", "a", "t", "h", ":", " ", " ",
      "/", "e", "t", "c", "/", "d", "e", "t", "e", "e", " ", ":", " ", "o",
      "l", "d", "\n">>

\* "note: Config path: /tmp\n" (the marker is the second segment)
A_CONFIG_NOTED ==
    <<"n", "o", "t", "e", ":", " ", "C", "o", "n", "f", "i", "g", " ", "p",
      "a", "t", "h", ":", " ", "/", "t", "m", "p", "\n">>

\* "The brain URL is: http://10.0.0.1:31337\n"
A_BRAIN ==
    <<"T", "h", "e", " ", "b", "r", "a", "i", "n", " ", "U", "R", "L", " ",
      "i", "s", ":", " ", "h", "t", "t", "p", ":", "/", "/", "1", "0", ".",
      "0", ".", "0", ".", "1", ":", "3", "1", "3", "3", "7", "\n">>

\* "brain URL unset\n" (no "brain URL is:")
A_BRAIN_SHORT ==
    <<"b", "r", "a", "i", "n", " ", "U", "R", "L", " ", "u", "n", "s", "e",
      "t", "\n">>

\* "SSH Key Path: /root/.ssh/id\n"
A_SSH_KEY ==
    <<"S", "S", "H", " ", "K", "e", "y", " ", "P", "a", "t", "h", ":", " ",
      "/", "r", "o", "o", "t", "/", ".", "s", "s", "h", "/", "i", "d",
      "\n">>

\* "Wallet public key: 9xQe\n"
A_WALLET ==
    <<"W", "a", "l", "l", "e", "t", " ", "p", "u", "b", "l", "i", "c", " ",
      "k", "e", "y", ":", " ", "9", "x", "Q", "e", "\n">>

\* "Account Balance: 5 LP\n"
A_BALANCE ==
    <<"A", "c", "c", "o", "u", "n", "t", " ", "B", "a", "l", "a", "n", "c",
      "e", ":", " ", "5", " ", "L", "P", "\n">>

\* "Wallet secret key path: /root/.detee/key\n"
A_SECRET ==
    <<"W", "a", "l", "l", "e", "t", " ", "s", "e", "c", "r", "e", "t", " ",
      "k", "e", "y", " ", "p", "a", "t", "h", ":", " ", "/", "r", "o", "o",
      "t", "/", ".", "d", "e", "t", "e", "e", "/", "k", "e", "y", "\n">>

RECURSIVE concat(_)
concat(fs) == IF fs = <<>> THEN EMPTY ELSE Head(fs) \o concat(Tail(fs))

SeqsUpTo(S, n) == UNION {[1..k -> S] : k \in 0..n}

TextsOf(S, n) == {concat(fs) : fs \in SeqsUpTo(S, n)}

\* The bounds of the model
MaxFragments == 2
MaxUuidFragments == 3
MaxRows == 3
MaxStdout == 2
MaxVmLines == 2
MaxAccountLines == 3

\* Text that meets every predicate of the classifier, alone and in pairs
ClassifyFragments ==
    {F_VERSION, F_VERSION12, F_OK, F_NL, F_ID64, F_ID12, F_CREATED, F_CONFIG,
     F_BRAIN, F_HEADER, F_HARDWARE, F_RUN, R_SEVEN, R_ROME}

ClassifyTexts == TextsOf(ClassifyFragments, MaxFragments)

\* VM-created text with UUID literals in lower and upper case
UuidFragments ==
    {F_CREATED, F_CREATED_NO_BANG, F_UUID_A, F_UUID_B, F_UUID_UPPER, F_HEX, F_NL}

UuidTexts == TextsOf(UuidFragments, MaxUuidFragments)

\* Tables: zero, one or two header lines, then up to MaxRows lines
TableHeaders == {EMPTY, R_HEADER1, F_HEADER}

TableRows ==
    {R_ROME, R_OSLO, R_BAD_CORES, R_BAD_NUMBERS, R_SEVEN, R_SEVEN_BAD, R_FIVE,
     R_SEPARATOR, R_DASHED, R_NO_PIPE}

TableTexts == {h \o rows : h \in TableHeaders, rows \in TextsOf(TableRows, MaxRows)}

\* VM-created text: a "VM CREATED" line, then up to MaxVmLines other lines
VmCreatedLines == {V_CREATED, V_CREATED_PLAIN}

VmLines ==
    {V_NAME, V_NAME_EMPTY, V_PRICE, V_UNITS, V_UNITS_BAD, V_LOCKING,
     V_LOCKING_BAD, V_LOCKING_NAN, V_LOCKING_ALONE, V_SSH, V_SSH_BAD_PORT,
     V_SSH_NO_AT, V_SSH_SHORT}

VmTexts == {c \o rest : c \in VmCreatedLines, rest \in TextsOf(VmLines, MaxVmLines)}

\* Account text: up to MaxAccountLines lines
AccountLines ==
    {A_CONFIG, A_CONFIG_OTHER, A_CONFIG_NOTED, A_BRAIN, A_BRAIN_SHORT, A_SSH_KEY,
     A_WALLET, A_BALANCE, A_SECRET}

AccountTexts == TextsOf(AccountLines, MaxAccountLines)

\* What the external command may print when an action runs it
StdoutFragments ==
    {F_VERSION, F_ID64, F_NL, F_HEADER, R_ROME, R_OSLO, R_SEVEN, R_NO_PIPE}

Stdouts == TextsOf(StdoutFragments, MaxStdout)

\* What the external process may do: fail to start, exit non-zero, or exit
\* zero having printed a text
ProcessOutputs ==
    {ProcessOutput(FALSE, FALSE, EMPTY), ProcessOutput(TRUE, FALSE, EMPTY)}
        \cup {ProcessOutput(TRUE, TRUE, t) : t \in Stdouts}

WorkerIds == {ID_A1, ID_B2}

----------------------------------------------------------------------------
(* The state machine: a caller calls one action at a time.                 *)

NoOutcome == ProcessOutput(FALSE, FALSE, EMPTY)

\* The parameters of a call: none, or the worker_id.  `accepted` is what the
\* validation::extract_* calls of execute_action say of them: an Err of any
\* of them is returned by `?` before the action method is called.
NoParams == [worker_id |-> EMPTY, accepted |-> TRUE]
WorkerParams(id) == [worker_id |-> id, accepted |-> TRUE]
RejectedParams == [worker_id |-> EMPTY, accepted |-> FALSE]

\* The arms of execute_action that extract parameters
ValidatedActions ==
    {"create_worker", "get_worker", "has_worker", "update_worker", "delete_worker"}

Init ==
    /\ pc = "idle"
    /\ action = "none"
    /\ params = NoParams
    /\ outcome = NoOutcome
    /\ output = EMPTY
    /\ result = Ok(JNull)
    /\ log = <<>>

\* The call `name` ran to its end as `call`, the process having done `o`
Returns(name, ps, o, call) ==
    /\ pc' = "returned"
    /\ action' = name
    /\ params' = ps
    /\ outcome' = o
    /\ output' = call.output
    /\ result' = call.result
    /\ log' = call.log

TestInstall ==
    /\ pc = "idle"
    /\ \E o \in ProcessOutputs :
          Returns("test_install", NoParams, o, test_install(o))

SetupContainer ==
    /\ pc = "idle"
    /\ \E o \in ProcessOutputs :
          Returns("setup_container", NoParams, o, setup_container(o))

SetupAccount ==
    /\ pc = "idle"
    /\ \E o \in ProcessOutputs :
          Returns("setup_account", NoParams, o, setup_account(o))

GetAccountInfo ==
    /\ pc = "idle"
    /\ \E o \in ProcessOutputs :
          Returns("get_account_info", NoParams, o, get_account_info(o))

\* The command of create_worker carries its parameters; the model leaves what
\* the process does with them to ProcessOutputs
CreateWorker ==
    /\ pc = "idle"
    /\ \E o \in ProcessOutputs :
          Returns("create_worker", NoParams, o, create_worker(o))

ListWorkers ==
    /\ pc = "idle"
    /\ \E o \in ProcessOutputs :
          Returns("list_workers", NoParams, o, list_workers(o))

GetWorker ==
    /\ pc = "idle"
    /\ \E id \in WorkerIds, o \in ProcessOutputs :
          Returns("get_worker", WorkerParams(id), o, get_worker(id, o))

HasWorker ==
    /\ pc = "idle"
    /\ \E id \in WorkerIds, o \in ProcessOutputs :
          Returns("has_worker", WorkerParams(id), o, has_worker(id, o))

UpdateWorker ==
    /\ pc = "idle"
    /\ \E id \in WorkerIds, o \in ProcessOutputs :
          Returns("update_worker", WorkerParams(id), o, update_worker(id, o))

DeleteWorker ==
    /\ pc = "idle"
    /\ \E id \in WorkerIds, o \in ProcessOutputs :
          Returns("delete_worker", WorkerParams(id), o, delete_worker(id, o))

\* execute_action with parameters that validation::extract_* refuses: the
\* `?` returns its error and the action method is never called
RejectParams ==
    /\ pc = "idle"
    /\ \E name \in ValidatedActions :
          Returns(name, RejectedParams, NoOutcome, invalid_params)

\* execute_action with a name that is no action: no process is run
UnknownAction ==
    /\ pc = "idle"
    /\ Returns("unknown", NoParams, NoOutcome, action_not_found)

\* The caller takes the result; nothing of the call is kept
Discard ==
    /\ pc = "returned"
    /\ pc' = "idle"
    /\ action' = "none"
    /\ params' = NoParams
    /\ outcome' = NoOutcome
    /\ output' = EMPTY
    /\ result' = Ok(JNull)
    /\ log' = <<>>

Next ==
    \/ TestInstall
    \/ SetupContainer
    \/ SetupAccount
    \/ GetAccountInfo
    \/ CreateWorker
    \/ ListWorkers
    \/ GetWorker
    \/ HasWorker
    \/ UpdateWorker
    \/ DeleteWorker
    \/ RejectParams
    \/ UnknownAction
    \/ Discard

Spec == Init /\ [][Next]_vars

----------------------------------------------------------------------------
(* The translator and the table parser on their own: Init draws a text,    *)
(* the action applies the function to it.                                   *)

InitText(texts) ==
    /\ pc = "text"
    /\ action = "none"
    /\ params = NoParams
    /\ outcome = NoOutcome
    /\ output \in texts
    /\ result = Ok(JNull)
    /\ log = <<>>

\* cli_output_to_json(output)
Translate ==
    /\ pc = "text"
    /\ pc' = "translated"
    /\ result' = cli_output_to_json(output)
    /\ UNCHANGED <<action, params, outcome, output, log>>

\* parse_workers_table(output)
ParseTable ==
    /\ pc = "text"
    /\ pc' = "parsed"
    /\ result' = parse_workers_table(output)
    /\ UNCHANGED <<action, params, outcome, output, log>>

InitClassify == InitText(ClassifyTexts)
SpecClassify == InitClassify /\ [][Translate]_vars

InitUuid == InitText(UuidTexts)
SpecUuid == InitUuid /\ [][Translate]_vars

InitVm == InitText(VmTexts)
SpecVm == InitVm /\ [][Translate]_vars

InitAccount == InitText(AccountTexts)
SpecAccount == InitAccount /\ [][Translate]_vars

InitTable == InitText(TableTexts)
SpecTable == InitTable /\ [][ParseTable]_vars

----------------------------------------------------------------------------
(* The properties checked of the model.                                    *)

\* {"success": true}
SuccessOnly == JObj([success |-> JBool(TRUE)])

\* The external command of the call could not be run or exited non-zero
CommandFailed == params.accepted /\ ~(outcome.spawned /\ outcome.success)

\* The external command of the call was run and exited zero
CommandSucceeded == params.accepted /\ outcome.spawned /\ outcome.success

\* The shapes in the order of the classification, and which of their
\* predicates hold of a text
ShapeOrder ==
    <<"VersionInfo", "ContainerId", "AccountInfo", "VmCreated", "VmTable",
      "VmUpdate", "Generic">>

Holds(text) ==
    <<is_version(text), is_container_id(text), is_account(text),
      is_vm_created(text), is_vm_table(text), is_vm_update(text), TRUE>>

FirstOf(holds) ==
    CHOOSE i \in 1..7 : holds[i] /\ \A j \in 1..(i - 1) : ~holds[j]

FirstShape(text) == ShapeOrder[FirstOf(Holds(text))]

\* C1: the translator returns for every text, and what it returns has the
\* shape of the first predicate that holds of the text in the order version,
\* container id, account, VM created, VM table, VM update; a text of which
\* none holds yields {success: true} only.
C1_FirstMatchWins ==
    pc = "translated" =>
        /\ result.kind = "Ok"
        /\ result.shape = FirstShape(output)
        /\ (FirstShape(output) = "Generic" => result.value = SuccessOnly)

\* The order of the classification alone: whenever the translator returns,
\* the branch it took is the first whose predicate holds.
FirstMatchWhenReturned ==
    (pc = "translated" /\ result.kind = "Ok") =>
        /\ result.shape = FirstShape(output)
        /\ (FirstShape(output) = "Generic" => result.value = SuccessOnly)

\* {"success": true, "exists": e}
ExistsResult(e) == Ok(JObj([success |-> JBool(TRUE), exists |-> JBool(e)]))

\* C2: has_worker never returns an error: a failed command gives
\* {success: true, exists: false}, a successful one {success: true,
\* exists: e} with e true exactly when the trimmed output is not empty.
C2_HasWorkerNeverFails ==
    (pc = "returned" /\ action = "has_worker" /\ params.accepted) =>
        IF CommandFailed THEN result = ExistsResult(FALSE)
        ELSE result = ExistsResult(trim(outcome.stdout) # EMPTY)

\* has_worker has answered "does not exist" for a command that exited non-zero
C2_Witness ==
    /\ pc = "returned"
    /\ action = "has_worker"
    /\ outcome.spawned
    /\ ~outcome.success
    /\ result = ExistsResult(FALSE)

\* The actions that run a command, has_worker apart
FailingActions ==
    {"test_install", "setup_container", "setup_account", "get_account_info",
     "create_worker", "list_workers", "get_worker", "update_worker",
     "delete_worker"}

\* C3: an action other than has_worker whose command cannot be run or exits
\* non-zero returns an error, having run the command once and translated
\* nothing.
C3_FailureIsAnError ==
    (pc = "returned" /\ action \in FailingActions /\ CommandFailed) =>
        /\ result.kind = "Err"
        /\ log = <<"exec">>
        /\ output = EMPTY

\* delete_worker has returned the error of a command that could not be run
C3_Witness ==
    /\ pc = "returned"
    /\ action = "delete_worker"
    /\ ~outcome.spawned
    /\ result = Err("Failed to execute DeeTEE command")
    /\ log = <<"exec">>

\* The lines of a table after its two header lines
TableLines(text) == skip(filter_contains(lines(text), PIPE), 2)

\* A line with no dash run and at least 7 non-empty trimmed columns
Accepted(line) == ~contains(line, DASHES) /\ Len(columns_of(line)) >= 7

AcceptedLines(text) == SelectSeq(TableLines(text), Accepted)

\* The record has the first three columns of the line
RecordOf(worker, columns) ==
    /\ worker.city = columns[1]
    /\ worker.uuid = columns[2]
    /\ worker.hostname = columns[3]

\* The records are those of the lines, one each and in their order
RecordsOf(workers, ls) ==
    /\ Len(workers) = Len(ls)
    /\ \A i \in 1..Len(ls) : RecordOf(workers[i], columns_of(ls[i]))

\* C4: parse_workers_table returns for every text, and returns one record
\* for each line that has a pipe, is not one of the first two lines with a
\* pipe, has no "----" and has at least 7 non-empty trimmed columns, in the
\* order of the lines; shorter rows are dropped.
C4_OneRecordPerAcceptedLine ==
    pc = "parsed" =>
        /\ result.kind = "Ok"
        /\ RecordsOf(result.workers, AcceptedLines(output))

\* A data row that has all eight columns of a record and names the worker
WellFormed(line, worker_id) ==
    /\ contains(line, PIPE)
    /\ ~contains(line, DASHES)
    /\ Len(columns_of(line)) >= 8
    /\ contains(line, worker_id)

RECURSIVE well_formed_rows(_, _)
well_formed_rows(ls, worker_id) ==
    IF ls = <<>> THEN <<>>
    ELSE IF WellFormed(Head(ls), worker_id)
    THEN <<Head(ls)>> \o well_formed_rows(Tail(ls), worker_id)
    ELSE well_formed_rows(Tail(ls), worker_id)

\* {"vm": {..}} of the first of the rows
VmOfFirst(rows) == Ok(JObj([vm |-> vm_json(WorkerInfo(columns_of(rows[1])))]))

FirstRowWins(res, rows) == rows # <<>> => res = VmOfFirst(rows)

\* C5: get_worker whose command succeeds returns a not-found error when the
\* output has no row, and {vm: {..}} of the first well-formed row of the
\* requested worker when the output has one or more.
C5_FirstRowWins ==
    (pc = "returned" /\ action = "get_worker" /\ CommandSucceeded) =>
        /\ trim(outcome.stdout) = EMPTY => result = Err("Worker with ID not found")
        /\ FirstRowWins(result,
                        well_formed_rows(lines(outcome.stdout), params.worker_id))

\* One of the four numeric columns does not parse
HasBadNumber(columns) ==
    \/ ~parse_i64(columns[4]).ok
    \/ ~parse_i64(columns[5]).ok
    \/ ~parse_i64(columns[6]).ok
    \/ ~parse_f64(columns[7]).ok

\* The record has the columns of the row, 0 and 0.0 for what does not parse
Resilient(worker, columns) ==
    /\ RecordOf(worker, columns)
    /\ worker.cores = unwrap_or(parse_i64(columns[4]), 0)
    /\ worker.memory_mb = unwrap_or(parse_i64(columns[5]), 0)
    /\ worker.disk_gb = unwrap_or(parse_i64(columns[6]), 0)
    /\ worker.lp_per_hour = unwrap_or_zero(parse_f64(columns[7]))
    /\ Len(columns) >= 8 => worker.time_left = columns[8]

ResilientRows(res, ls) ==
    \A i \in 1..Len(ls) :
        HasBadNumber(columns_of(ls[i])) =>
            /\ res.kind = "Ok"
            /\ Len(res.workers) >= i
            /\ Resilient(res.workers[i], columns_of(ls[i]))

\* C6: an accepted row (at least 7 columns) with a numeric column that does
\* not parse is still emitted, with 0 or 0.0 for that column and every
\* other field as the row has it.
C6_NumericResilience ==
    pc = "parsed" => ResilientRows(result, AcceptedLines(output))

\* C7: list_workers whose command succeeds returns {workers: s}, s the
\* sequence of records the table parser makes of the output.
C7_WorkersIsASequence ==
    (pc = "returned" /\ action = "list_workers" /\ CommandSucceeded) =>
        /\ result.kind = "Ok"
        /\ Index(result.value, "workers").t = "arr"
        /\ result.value =
              JObj([workers |->
                      workers_to_json(parse_workers_table(outcome.stdout).workers)])

\* The hexadecimal digits in lower case, and in either case
LowerHex ==
    {"0", "1", "2", "3", "4", "5", "6", "7", "8", "9", "a", "b", "c", "d", "e", "f"}

AnyHex == LowerHex \cup {"A", "B", "C", "D", "E", "F"}

\* An 8-4-4-4-12 literal of the digits `hex` starts at the 1-based place i
LiteralAt(s, i, hex) ==
    /\ i + 35 <= Len(s)
    /\ \A k \in 0..35 :
          IF k \in {8, 13, 18, 23} THEN s[i + k] = "-" ELSE s[i + k] \in hex

Literals(s, hex) == {i \in 1..Len(s) : LiteralAt(s, i, hex)}

\* The first literal of s, <<literal>> or <<>>
FirstAmong(s, places) ==
    IF places = {} THEN <<>>
    ELSE <<SubSeq(s, Min(places), Min(places) + 35)>>

FirstLiteral(s, hex) == FirstAmong(s, Literals(s, hex))

\* What follows the first "VM CREATED!" of a line
AfterBang(line, idx) ==
    IF idx < 0 THEN EMPTY ELSE from(line, idx + Len(UUID_PATTERN))

\* What follows the marker on the first line that has "VM CREATED"
AfterMarkerOn(found) ==
    IF found = <<>> THEN EMPTY ELSE AfterBang(found[1], find(found[1], UUID_PATTERN))

AfterMarker(text) == AfterMarkerOn(find_line(text, VM_CREATED))

\* The uuid field is the literal found, and absent when none is
UuidIs(value, literal) ==
    IF literal = <<>> THEN "uuid" \notin Keys(value)
    ELSE Index(value, "uuid") = JStr(literal[1])

\* C8, as the source has it: of a VM-created text, the uuid field is the
\* first 8-4-4-4-12 literal of lower-case hexadecimal digits after
\* "VM CREATED!" on the first line that has "VM CREATED", and is absent when
\* there is none.
C8_LowerCaseUuid ==
    (pc = "translated" /\ FirstShape(output) = "VmCreated") =>
        /\ result.kind = "Ok"
        /\ UuidIs(result.value, FirstLiteral(AfterMarker(output), LowerHex))

\* C8, as stated: the same of the first 8-4-4-4-12 literal of hexadecimal
\* digits, of either case.
C8_AnyCaseUuid ==
    (pc = "translated" /\ FirstShape(output) = "VmCreated") =>
        /\ result.kind = "Ok"
        /\ UuidIs(result.value, FirstLiteral(AfterMarker(output), AnyHex))

\* The second of two literals is the uuid, the first being in upper case
C8_Witness ==
    /\ pc = "translated"
    /\ output = F_CREATED \o F_UUID_UPPER \o F_UUID_A
    /\ result.kind = "Ok"
    /\ Index(result.value, "uuid") = JStr(SubSeq(F_UUID_A, 1, 36))

\* s with the prefix p taken from its start, s itself when it has none
strip_prefix(s, p) ==
    IF Len(s) >= Len(p) /\ SubSeq(s, 1, Len(p)) = p THEN from(s, Len(p)) ELSE s

\* {"version": v, "success": true}
VersionResult(v) == JObj([version |-> JStr(v), success |-> JBool(TRUE)])

\* The value is the version v, trimmed again or not
IsVersion(value, v) == value = VersionResult(v) \/ value = VersionResult(trim(v))

\* C9: of a text that has the tool name, the result is {version: v,
\* success: true}, v the trimmed text with "detee-cli " stripped from its
\* start.
C9_PrefixStripped ==
    (pc = "translated" /\ is_version(output)) =>
        /\ result.kind = "Ok"
        /\ IsVersion(result.value, strip_prefix(trim(output), DETEE_CLI_PREFIX))

OneExecution == log \in {<<"exec">>, <<"exec", "translate">>}

\* A call with a name that is no action: the error, and no command
NotFound == result = Err("Action not found") /\ log = <<>>

\* C11, as the source has it: a call with a known action name whose
\* parameters execute_action accepts runs exactly one command, and
\* translates, if it does, after the command and before it returns; a call
\* whose parameters are refused returns an error and runs no command; a
\* call with an unknown name returns "Action not found" and runs no command.
C11_OneExecutionWhenAccepted ==
    pc = "returned" =>
        IF action = "unknown" THEN NotFound
        ELSE IF params.accepted THEN OneExecution
        ELSE result.kind = "Err" /\ log = <<>>

\* C11, as stated: every call with a known action name runs exactly one
\* command.
C11_OneExecutionAlways ==
    pc = "returned" =>
        IF action = "unknown" THEN NotFound ELSE OneExecution

\* list_workers has run its command and then translated the output
C11_Witness ==
    /\ pc = "returned"
    /\ action = "list_workers"
    /\ CommandSucceeded
    /\ output = outcome.stdout
    /\ log = <<"exec", "translate">>

\* The field of an object, <<value>> or <<>>
Field(value, key) == IF key \in Keys(value) THEN <<Index(value, key)>> ELSE <<>>

\* A field of a parsed integer or number, absent when the parse failed
IntField(parsed) == IF parsed.ok THEN <<JInt(parsed.v)>> ELSE <<>>
F64Field(parsed) == IF parsed.ok THEN <<JF64(parsed.m, parsed.e)>> ELSE <<>>

\* What follows the first ':' of the line up to the next, untrimmed; the
\* markers used with it end in ':', so there is one
AfterColon(found) == split(found[1], ":")[2]

VmHostname(found) ==
    IF found = <<>> THEN <<>> ELSE <<JStr(trim(AfterColon(found)))>>

VmPrice(found) ==
    IF found = <<>> THEN <<>>
    ELSE <<JStr(trim(split(AfterColon(found), "/")[1]))>>

VmUnits(found) ==
    IF found = <<>> THEN <<>> ELSE IntField(parse_i64(trim(AfterColon(found))))

\* The whitespace-separated tokens of the line, none when there is no line
Tokens(found) == IF found = <<>> THEN <<>> ELSE split_whitespace(found[1])

VmLocked(tokens) ==
    IF Len(tokens) < 2 THEN <<>> ELSE F64Field(parse_f64(tokens[2]))

VmPort(tokens) ==
    IF Len(tokens) < 4 THEN <<>> ELSE IntField(parse_i64(tokens[3]))

\* The host of the target user@host; `no_at` for a target without '@'
VmHost(tokens, no_at) ==
    IF Len(tokens) < 4 THEN <<>>
    ELSE IF ~contains(tokens[4], <<"@">>) THEN no_at
    ELSE <<JStr(split(tokens[4], "@")[2])>>

VmUuid(literal) == IF literal = <<>> THEN <<>> ELSE <<JStr(literal[1])>>

VmKeys ==
    {"hostname", "price", "total_units", "locked_lp", "ssh_port", "ssh_host",
     "uuid"}

\* The seven fields of the value are what the lines of the text give
VmFieldsAre(value, text, no_at) ==
    /\ Keys(value) \subseteq VmKeys
    /\ Field(value, "hostname") = VmHostname(find_line(text, USING_RANDOM_VM_NAME))
    /\ Field(value, "price") = VmPrice(find_line(text, NODE_PRICE))
    /\ Field(value, "total_units") = VmUnits(find_line(text, TOTAL_UNITS))
    /\ Field(value, "locked_lp") = VmLocked(Tokens(find_line(text, LOCKING)))
    /\ Field(value, "ssh_port") = VmPort(Tokens(find_line(text, SSH_P)))
    /\ Field(value, "ssh_host") = VmHost(Tokens(find_line(text, SSH_P)), no_at)
    /\ Field(value, "uuid") = VmUuid(FirstLiteral(AfterMarker(text), LowerHex))

\* C12, as the source has it: of a VM-created text the translator returns,
\* and each field is present exactly when its line is there and its value
\* parses, the others being extracted all the same; but ssh_host is set
\* whenever the ssh line has four tokens, to the empty string when the
\* target has no '@'.
C12_VmFields ==
    (pc = "translated" /\ FirstShape(output) = "VmCreated") =>
        /\ result.kind = "Ok"
        /\ VmFieldsAre(result.value, output, <<JStr(EMPTY)>>)

\* C12, as stated: the same, with ssh_host omitted when the target has no
\* '@'.
C12_VmFieldsOmitted ==
    (pc = "translated" /\ FirstShape(output) = "VmCreated") =>
        /\ result.kind = "Ok"
        /\ VmFieldsAre(result.value, output, <<>>)

\* A target without '@' and a malformed units line beside a good port
C12_Witness ==
    /\ pc = "translated"
    /\ output = V_CREATED \o V_SSH_NO_AT \o V_UNITS_BAD
    /\ result.kind = "Ok"
    /\ Field(result.value, "ssh_host") = <<JStr(EMPTY)>>
    /\ Field(result.value, "ssh_port") = <<JInt(2222)>>
    /\ Field(result.value, "total_units") = <<>>
    /\ "uuid" \in Keys(result.value)

\* The trimmed second segment of the line split on ':', absent with the line
AccountField(found) ==
    IF found = <<>> THEN <<>> ELSE <<JStr(trim(AfterColon(found)))>>

AccountKeys ==
    {"config_path", "brain_url", "ssh_key_path", "wallet_public_key",
     "account_balance", "wallet_secret_key_path"}

\* Each of the six fields is what the first line with its marker gives, and
\* depends on no other line
AccountFieldsAre(value, text) ==
    /\ Keys(value) \subseteq AccountKeys
    /\ Field(value, "config_path") = AccountField(find_line(text, CONFIG_PATH))
    /\ Field(value, "brain_url") = AccountField(find_line(text, BRAIN_URL_IS))
    /\ Field(value, "ssh_key_path") = AccountField(find_line(text, SSH_KEY_PATH))
    /\ Field(value, "wallet_public_key") =
          AccountField(find_line(text, WALLET_PUBLIC_KEY))
    /\ Field(value, "account_balance") =
          AccountField(find_line(text, ACCOUNT_BALANCE))
    /\ Field(value, "wallet_secret_key_path") =
          AccountField(find_line(text, WALLET_SECRET_KEY_PATH))

\* C13: of an account text the translator returns, and each of the six
\* fields is the trimmed second segment, split on ':', of the first line
\* that has the field's marker, and is unset when no line has it, whatever
\* the other fields are.
C13_AccountFields ==
    (pc = "translated" /\ FirstShape(output) = "AccountInfo") =>
        /\ result.kind = "Ok"
        /\ AccountFieldsAre(result.value, output)

\* Two of the six fields are set, the brain URL up to its second ':'
C13_Witness ==
    /\ pc = "translated"
    /\ output = A_BRAIN \o A_CONFIG_OTHER \o A_CONFIG
    /\ result.kind = "Ok"
    /\ Keys(result.value) = {"config_path", "brain_url"}
    /\ Index(result.value, "brain_url") = JStr(<<"h", "t", "t", "p">>)
    /\ Index(result.value, "config_path") =
          JStr(<<"/", "e", "t", "c", "/", "d", "e", "t", "e", "e">>)

\* {"success": true, "container_id": c}
ContainerResult(c) ==
    Ok(JObj([success |-> JBool(TRUE), container_id |-> JStr(c)]))

\* C14: setup_container whose command succeeds returns {success: true,
\* container_id: c}, c the trimmed output of the command, and so never a
\* null or missing container_id.
C14_ContainerIdIsTheOutput ==
    (pc = "returned" /\ action = "setup_container" /\ CommandSucceeded) =>
        result = ContainerResult(trim(outcome.stdout))

====
